---- MODULE Spec2Model ----
(***************************************************************************)
(* A model of git_portfolio.github_manager.GithubManager: the four batch   *)
(* operations over configs.github_selected_repos, the label parsing they   *)
(* share, and the setup flow (__init__, init_config, github_setup,         *)
(* get_github_username, select_github_repos).                              *)
(*                                                                         *)
(* Python strings whose characters matter (labels, titles, bodies, tokens) *)
(* are sequences of one-character strings; other texts are atoms.          *)
(***************************************************************************)
EXTENDS Integers, Sequences, FiniteSets, TLC

VARIABLES
    configs,            \* self.configs: token, hostname, selected repos
    stored,             \* the record config_manager loads and saves
    github_connection,  \* self.github_connection
    github_username,    \* self.github_username
    github_repos,       \* self.github_repos
    stack,              \* call stack of the setup flow, innermost frame last
    setup,              \* "new", "running", "ready", "exited", "raised"
    reprompts,          \* number of times init_config asked for credentials
    op,                 \* the batch operation in progress
    status,             \* "idle", "running", "returned", "raised"
    idx,                \* position of the for loop in github_selected_repos
    labels,             \* create_issues: the local `labels`
    pr,                 \* create_pull_requests: the local `pr`
    descriptor,         \* the descriptor object the caller passed in
    head,               \* merge_pull_requests: the local `head`
    out,                \* the lines printed so far
    calls,              \* the remote calls made so far, with their results
    exc,                \* the exception that left the operation, if any
    labelIn,            \* label parsing: the descriptor's labels attribute
    labelOut            \* label parsing: the parsed labels

vars == <<configs, stored, github_connection, github_username, github_repos,
          stack, setup, reprompts, op, status, idx, labels, pr, descriptor,
          head, out, calls, exc, labelIn, labelOut>>

setupVars == <<stored, github_connection, github_username, github_repos,
               stack, setup, reprompts>>

batchVars == <<op, status, idx, labels, pr, descriptor, head, out, calls, exc>>

labelVars == <<labelIn, labelOut>>

-----------------------------------------------------------------------------
(* Bounds *)

MaxRepos == 2

MaxIssues == 2

MaxPulls == 2

MaxLabelLen == 3

MaxReprompts == 2

-----------------------------------------------------------------------------
(* Python values *)

\* Python's None, and an optional string: None or a str.
None == [none |-> TRUE]

Absent == [some |-> FALSE, s |-> <<>>]

Str(s) == [some |-> TRUE, s |-> s]

\* Truth value of an optional string: None and "" are falsy.
Truthy(x) == x.some /\ x.s # <<>>

IsSpace(c) == c \in {" ", "\t", "\n"}

\* str.strip()
RECURSIVE LStrip(_)
LStrip(s) ==
    IF s # <<>> /\ IsSpace(Head(s)) THEN LStrip(Tail(s)) ELSE s

RECURSIVE RStrip(_)
RStrip(s) ==
    IF s # <<>> /\ IsSpace(s[Len(s)]) THEN RStrip(SubSeq(s, 1, Len(s) - 1)) ELSE s

Strip(s) == RStrip(LStrip(s))

\* str.split(sep) for a one-character separator
RECURSIVE Split(_, _)
Split(s, sep) ==
    IF \A i \in 1..Len(s) : s[i] # sep
    THEN <<s>>
    ELSE LET i == CHOOSE k \in 1..Len(s) :
                      s[k] = sep /\ \A j \in 1..(k - 1) : s[j] # sep
         IN  <<SubSeq(s, 1, i - 1)>> \o Split(SubSeq(s, i + 1, Len(s)), sep)

\* `needle in haystack` for strings
Contains(needle, haystack) ==
    \E i \in 0..(Len(haystack) - Len(needle)) :
        SubSeq(haystack, i + 1, i + Len(needle)) = needle

Range(s) == {s[i] : i \in 1..Len(s)}

RECURSIVE Concat(_)
Concat(ss) == IF ss = <<>> THEN <<>> ELSE Head(ss) \o Concat(Tail(ss))

\* All sequences over S of length at most n.
UpTo(S, n) == UNION {[1..k -> S] : k \in 0..n}

\* The duplicate-free sequences over S of length at most n.
Distinct(S, n) == {s \in UpTo(S, n) : \A i, j \in 1..Len(s) : i # j => s[i] # s[j]}

-----------------------------------------------------------------------------
(* Label parsing *)

\* create_issues: [label.strip() for label in issue.labels.split(",")]
\* if issue.labels else []
ParseIssueLabels(l) ==
    IF Truthy(l)
    THEN LET parts == Split(l.s, ",")
         IN  [i \in 1..Len(parts) |-> Strip(parts[i])]
    ELSE <<>>

\* create_pull_requests: set(label.strip() for label in pr.labels.split(","))
\* if pr.labels else set()
ParsePullRequestLabels(l) ==
    IF Truthy(l)
    THEN {Strip(p) : p \in Range(Split(l.s, ","))}
    ELSE {}

LabelChars == {"a", "b", ",", " "}

ExampleLabels == <<"a", ",", " ", "b", " ", ",", "c">>

LabelInputs ==
    {Absent} \cup {Str(s) : s \in UpTo(LabelChars, MaxLabelLen) \cup {ExampleLabels}}

-----------------------------------------------------------------------------
(* The remote: repositories, issues, structured errors *)

AllRepos == <<"o/r1", "o/r2", "o/r3">>

\* configs.github_selected_repos as the setup flow leaves it: unique names.
SelectedRepoLists == {SubSeq(AllRepos, 1, n) : n \in 0..MaxRepos}

Bug == <<"b", "u", "g">>

Doc == <<"d", "o", "c">>

Link == <<"f", "i", "x">>

\* Open issues a repository may list: number, title, label names.
Issues ==
    { [number |-> 3, title |-> <<"a", " ", "f", "i", "x">>, labels |-> <<Bug>>],
      [number |-> 7, title |-> <<"f", "i", "x", " ", "b">>, labels |-> <<<<"a">>, Bug>>],
      [number |-> 12, title |-> <<"d", "o", "c", "s">>, labels |-> <<Doc>>] }

IssueListings == Distinct(Issues, MaxIssues)

\* github_exception.data: a message and an optional list of sub-errors, each
\* with a field name and an optional message.
SubError(hasMessage, message, field) ==
    [has_message |-> hasMessage, message |-> message, field |-> field]

ErrorData(message, hasErrors, errors) ==
    [message |-> message, has_errors |-> hasErrors, errors |-> errors]

NotFound == ErrorData("Not Found", FALSE, <<>>)

IssuesDisabled == ErrorData("Issues are disabled for this repo", FALSE, <<>>)

ValidationFailed ==
    ErrorData("Validation Failed", TRUE,
              << SubError(TRUE, "No commits between main and branch", "head"),
                 SubError(FALSE, "", "base") >>)

Unprocessable == ErrorData("Unprocessable Entity", TRUE, <<>>)

RemoteErrors == {NotFound, IssuesDisabled, ValidationFailed, Unprocessable}

NoData == ErrorData("", FALSE, <<>>)

\* One remote call as the remote saw it.
Call(repo, call, arg, ok, res) ==
    [repo |-> repo, call |-> call, arg |-> arg, ok |-> ok, res |-> res]

\* An exception leaving the operation.
Exception(type, at, repo) == [type |-> type, at |-> at, repo |-> repo]

\* print("{}: ...".format(github_repo, ...)): the repository and the rest of
\* the line as its fragments.
Line(repo, text) == [repo |-> repo, text |-> text]

\* "{}".format(n) for a natural number
Digit(d) ==
    CASE d = 0 -> "0" [] d = 1 -> "1" [] d = 2 -> "2" [] d = 3 -> "3"
      [] d = 4 -> "4" [] d = 5 -> "5" [] d = 6 -> "6" [] d = 7 -> "7"
      [] d = 8 -> "8" [] d = 9 -> "9"

RECURSIVE Decimal(_)
Decimal(n) ==
    IF n < 10 THEN <<Digit(n)>> ELSE Decimal(n \div 10) \o <<Digit(n % 10)>>

Perms(S) ==
    {s \in [1..Cardinality(S) -> S] : \A i, j \in 1..Cardinality(S) : i # j => s[i] # s[j]}

-----------------------------------------------------------------------------
(* Operation descriptors *)

Body == <<"b", "o", "d", "y">>

Issue(title, body, labelString) ==
    [type |-> "Issue", title |-> title, body |-> body, labels |-> labelString]

PullRequest(title, body, labelString, draft, link, inherit, headBranch, base, confirmation) ==
    [type |-> "PullRequest", title |-> title, body |-> body, labels |-> labelString,
     draft |-> draft, link |-> link, inherit_labels |-> inherit,
     head |-> headBranch, base |-> base, confirmation |-> confirmation]

PullRequestMerge(base, headBranch, prefix, deleteBranch) ==
    [type |-> "PullRequestMerge", base |-> base, head |-> headBranch,
     prefix |-> prefix, delete_branch |-> deleteBranch]

\* The object repo.create_pull returns: a github PullRequest, which has no
\* confirmation, link or inherit_labels attribute and, just created, no label.
CreatedPull(title, body, headBranch, base, draft) ==
    [type |-> "github.PullRequest", title |-> title, body |-> body, labels |-> Absent,
     draft |-> draft, head |-> headBranch, base |-> base]

DescriptorLabels == {Absent, Str(<<"a", ",", " ", "b">>)}

IssueDescriptors == {Issue("title", Body, l) : l \in DescriptorLabels \cup {Str(<<"a", ",">>)}}

PullRequestDescriptors ==
    {PullRequest("title", Body, l, FALSE, Link, inh, "branch", "main", conf) :
        l \in DescriptorLabels, inh \in BOOLEAN, conf \in BOOLEAN}

PullRequestMergeDescriptors ==
    {PullRequestMerge("main", "branch", "org", d) : d \in BOOLEAN}

BranchDescriptors == {"branch"}

-----------------------------------------------------------------------------
(* create_pull_requests: linking issues (lines 69-81) *)

\* Linked, were the title not tested: every open issue is linked.
LinkedAny(issue, link) == TRUE

\* pr.link in issue.title
Linked(issue, link) == Contains(link, issue.title)

\* closes += "#{} ".format(issue.number) for every linked issue, in listing order
RECURSIVE ClosesAcc(_, _)
ClosesAcc(issues, link) ==
    IF issues = <<>> THEN <<>>
    ELSE (IF Linked(Head(issues), link)
          THEN <<"#">> \o Decimal(Head(issues).number) \o <<" ">>
          ELSE <<>>) \o ClosesAcc(Tail(issues), link)

\* closes = closes.strip(); if closes: body += "\n\nCloses {}".format(closes)
LinkedBody(body, issues, link) ==
    LET closes == Strip(ClosesAcc(issues, link))
    IN  IF closes # <<>>
        THEN body \o <<"\n", "\n", "C", "l", "o", "s", "e", "s", " ">> \o closes
        ELSE body

\* InheritedLabels, were pr.inherit_labels not tested.
InheritedLabelsAlways(issues, link, inherit) ==
    UNION {Range(issues[i].labels) : i \in {j \in 1..Len(issues) : Linked(issues[j], link)}}

\* if pr.inherit_labels: labels.update(label.name for label in issue.get_labels())
InheritedLabels(issues, link, inherit) ==
    IF inherit
    THEN UNION {Range(issues[i].labels) : i \in {j \in 1..Len(issues) : Linked(issues[j], link)}}
    ELSE {}

\* The outcomes of lines 63-81 for descriptor p: the body and the labels the
\* iteration goes on with, or the remote error raised by the issue listing or
\* by an issue's label listing (both outside the try block).
LinkOutcomes(p, repo) ==
    IF ~p.confirmation
    THEN {[raised |-> FALSE, at |-> "", body |-> p.body,
           labels |-> ParsePullRequestLabels(p.labels), log |-> <<>>]}
    ELSE {[raised |-> TRUE, at |-> "get_issues", body |-> p.body,
           labels |-> ParsePullRequestLabels(p.labels),
           log |-> <<Call(repo, "get_issues", "open", FALSE, NotFound)>>]}
         \cup
         {[raised |-> FALSE, at |-> "", body |-> LinkedBody(p.body, l, p.link),
           labels |-> ParsePullRequestLabels(p.labels)
                        \cup InheritedLabels(l, p.link, p.inherit_labels),
           log |-> <<Call(repo, "get_issues", "open", TRUE, l)>>] : l \in IssueListings}
         \cup
         {[raised |-> TRUE, at |-> "get_labels", body |-> LinkedBody(p.body, l, p.link),
           labels |-> ParsePullRequestLabels(p.labels),
           log |-> <<Call(repo, "get_issues", "open", TRUE, l)>>] :
             l \in {m \in IssueListings :
                       p.inherit_labels /\ \E i \in 1..Len(m) : Linked(m[i], p.link)}}

\* for label in labels: pr.add_to_labels(label), in some order of the set; the
\* calls made when every call returns (failAt = 0) or when call failAt raises.
AddCalls(repo, order, failAt, err) ==
    [i \in 1..(IF failAt = 0 THEN Len(order) ELSE failAt) |->
        IF i = failAt
        THEN Call(repo, "add_to_labels", order[i], FALSE, err)
        ELSE Call(repo, "add_to_labels", order[i], TRUE, NoData)]

\* The except block of create_pull_requests (lines 94-105): the printed line.
\* It reads github_exception.data["errors"], so data without that key raises
\* KeyError instead.
PullFailureExtra(err) ==
    Concat([i \in 1..Len(err.errors) |->
              IF err.errors[i].has_message
              THEN <<err.errors[i].message, " ">>
              ELSE <<"Invalid field ", err.errors[i].field, ". ">>])

PullFailureLine(repo, err) == Line(repo, <<err.message, ". ">> \o PullFailureExtra(err))

-----------------------------------------------------------------------------
(* Connection and configuration *)

Token == <<"t", "o", "k">>

Configs(token, hostname, repos) ==
    [github_access_token |-> token, github_hostname |-> hostname,
     github_selected_repos |-> repos]

\* get_github_connection: the enterprise base URL when a hostname is set
Connection(c) ==
    IF c.github_hostname # ""
    THEN [base_url |-> <<"https://", c.github_hostname, "/api/v3">>,
          login_or_token |-> c.github_access_token]
    ELSE [base_url |-> <<"https://api.github.com">>,
          login_or_token |-> c.github_access_token]

\* github_connection.get_user(): a lazy handle on the connection's user
User(connection) == [user_of |-> connection]

\* user.login, when the remote accepts the connection's credentials
Login(user) == [login_of |-> user.user_of.login_or_token]

\* user.get_repos(): a lazy listing bound to that user
ReposOf(user) == [repos_of |-> user]

-----------------------------------------------------------------------------
(* The batch operations *)

NoException == Exception("", "", "")

SelectedRepos == configs.github_selected_repos

github_repo == SelectedRepos[idx]

\* An exception leaves the for loop and the operation.
Raise(type, at) ==
    /\ status' = "raised"
    /\ exc' = Exception(type, at, github_repo)
    /\ idx' = idx

\* The loop body ended: the for loop takes the next repository or ends.
NextRepo ==
    /\ idx' = idx + 1
    /\ status' = IF idx + 1 > Len(SelectedRepos) THEN "returned" ELSE "running"
    /\ exc' = exc

\* Entering an operation: the for loop starts, or ends at once on an empty list.
Enter(name, d) ==
    /\ status = "idle"
    /\ op' = name
    /\ descriptor' = d
    /\ idx' = 1
    /\ status' = IF SelectedRepos = <<>> THEN "returned" ELSE "running"
    /\ UNCHANGED <<configs, setupVars, labelVars, out, calls, exc>>

Running(name) == op = name /\ status = "running"

\* create_issues, lines 31-36
CallCreateIssues ==
    \E issue \in IssueDescriptors :
        /\ Enter("create_issues", issue)
        /\ labels' = ParseIssueLabels(issue.labels)
        /\ UNCHANGED <<pr, head>>

\* create_issues, one iteration of lines 37-55
CreateIssuesIter ==
    /\ Running("create_issues")
    /\ UNCHANGED <<configs, setupVars, labelVars, op, descriptor, labels, pr, head>>
    /\ LET arg == [title |-> descriptor.title, body |-> descriptor.body, labels |-> labels]
       IN  \/ /\ Raise("GithubException", "get_repo")
              /\ UNCHANGED <<out, calls>>
           \/ /\ calls' = Append(calls, Call(github_repo, "create_issue", arg, TRUE, NoData))
              /\ out' = Append(out, Line(github_repo, <<"issue created successfully.">>))
              /\ NextRepo
           \/ \E err \in {IssuesDisabled, NotFound} :
                /\ calls' = Append(calls, Call(github_repo, "create_issue", arg, FALSE, err))
                /\ out' = Append(out,
                      IF err.message = "Issues are disabled for this repo"
                      THEN Line(github_repo, <<err.message, ". It may be a fork.">>)
                      ELSE Line(github_repo, <<err.message, ".">>))
                /\ NextRepo

\* create_pull_requests, lines 57-59
CallCreatePullRequests ==
    \E p \in PullRequestDescriptors :
        /\ Enter("create_pull_requests", p)
        /\ pr' = p
        /\ UNCHANGED <<labels, head>>

\* create_pull_requests, one iteration of lines 61-105
CreatePullRequestsIter ==
    /\ Running("create_pull_requests")
    /\ UNCHANGED <<configs, setupVars, labelVars, op, descriptor, labels, head>>
    /\ \/ /\ Raise("GithubException", "get_repo")
          /\ UNCHANGED <<pr, out, calls>>
       \/ \* line 70 on the object line 83 bound to pr in an earlier iteration
          /\ "confirmation" \notin DOMAIN pr
          /\ Raise("AttributeError", "pr.confirmation")
          /\ UNCHANGED <<pr, out, calls>>
       \/ /\ "confirmation" \in DOMAIN pr
          /\ \E link \in LinkOutcomes(pr, github_repo) :
               LET arg == [title |-> pr.title, body |-> link.body, head |-> pr.head,
                           base |-> pr.base, draft |-> pr.draft]
                   created == Call(github_repo, "create_pull", arg, TRUE, NoData)
                   success == Line(github_repo, <<"PR created successfully.">>)
               IN
               \/ /\ link.raised
                  /\ Raise("GithubException", link.at)
                  /\ calls' = calls \o link.log
                  /\ UNCHANGED <<pr, out>>
               \/ /\ ~link.raised
                  /\ \E err \in {NotFound, ValidationFailed, Unprocessable} :
                       /\ calls' = calls \o link.log
                              \o <<Call(github_repo, "create_pull", arg, FALSE, err)>>
                       /\ pr' = pr
                       /\ IF err.has_errors
                          THEN out' = Append(out, PullFailureLine(github_repo, err)) /\ NextRepo
                          ELSE out' = out /\ Raise("KeyError", "data[errors]")
               \/ /\ ~link.raised
                  /\ \E order \in Perms(link.labels) :
                       /\ pr' = CreatedPull(arg.title, arg.body, arg.head, arg.base, arg.draft)
                       /\ \/ /\ calls' = calls \o link.log \o <<created>>
                                    \o AddCalls(github_repo, order, 0, NoData)
                             /\ out' = Append(out, success)
                             /\ NextRepo
                          \/ \E failAt \in 1..Len(order), err \in {NotFound, ValidationFailed} :
                               /\ calls' = calls \o link.log \o <<created>>
                                      \o AddCalls(github_repo, order, failAt, err)
                               /\ IF err.has_errors
                                  THEN /\ out' = out \o <<success, PullFailureLine(github_repo, err)>>
                                       /\ NextRepo
                                  ELSE /\ out' = Append(out, success)
                                       /\ Raise("KeyError", "data[errors]")

\* OneMatch, were the test totalCount >= 1.
AtLeastOneMatch(totalCount) == totalCount >= 1

\* pulls.totalCount == 1 (line 124)
OneMatch(totalCount) == totalCount = 1

\* merge_pull_requests, lines 107-119
CallMergePullRequests ==
    \E m \in PullRequestMergeDescriptors :
        /\ Enter("merge_pull_requests", m)
        /\ head' = <<m.prefix, ":", m.head>>
        /\ UNCHANGED <<labels, pr>>

\* merge_pull_requests, one iteration of lines 121-147
MergePullRequestsIter ==
    /\ Running("merge_pull_requests")
    /\ UNCHANGED <<configs, setupVars, labelVars, op, descriptor, labels, pr, head>>
    /\ LET query == [state |-> "open", base |-> descriptor.base, head |-> head]
           Pulls(n, mergeable) ==
               Call(github_repo, "get_pulls", query, TRUE,
                    [totalCount |-> n, mergeable |-> mergeable])
       IN
       \/ /\ Raise("GithubException", "get_repo")
          /\ UNCHANGED <<out, calls>>
       \/ /\ Raise("GithubException", "get_pulls")
          /\ calls' = Append(calls, Call(github_repo, "get_pulls", query, FALSE, NotFound))
          /\ out' = out
       \/ \E n \in 0..MaxPulls :
            IF OneMatch(n)
            THEN \/ /\ Raise("GithubException", "pull.mergeable")
                    /\ calls' = Append(calls, Pulls(n, "raised"))
                    /\ out' = out
                 \/ \E mergeable \in {"False", "None"} :
                      /\ calls' = Append(calls, Pulls(n, mergeable))
                      /\ out' = Append(out, Line(github_repo,
                             <<"PR not mergeable, GitHub checks may be running.">>))
                      /\ NextRepo
                 \/ /\ calls' = calls \o <<Pulls(n, "True"),
                                           Call(github_repo, "merge", <<>>, TRUE, NoData)>>
                    /\ out' = Append(out, Line(github_repo, <<"PR merged successfully.">>))
                    /\ NextRepo
                 \/ \E err \in {NotFound, ValidationFailed} :
                      /\ calls' = calls \o <<Pulls(n, "True"),
                                             Call(github_repo, "merge", <<>>, FALSE, err)>>
                      /\ out' = Append(out, Line(github_repo, <<err.message, ".">>))
                      /\ NextRepo
            ELSE /\ calls' = Append(calls, Pulls(n, ""))
                 /\ out' = Append(out, Line(github_repo,
                        <<"no open PR found for ", descriptor.base, ":", descriptor.head, ".">>))
                 /\ NextRepo

\* delete_branches, lines 149-151
CallDeleteBranches ==
    \E branch \in BranchDescriptors :
        /\ Enter("delete_branches", branch)
        /\ UNCHANGED <<labels, pr, head>>

\* delete_branches, one iteration of lines 153-160
DeleteBranchesIter ==
    /\ Running("delete_branches")
    /\ UNCHANGED <<configs, setupVars, labelVars, op, descriptor, labels, pr, head>>
    /\ LET ref == <<"heads/", descriptor>>
       IN  \/ /\ Raise("GithubException", "get_repo")
              /\ UNCHANGED <<out, calls>>
           \/ \E err \in {NotFound} :
                /\ calls' = Append(calls, Call(github_repo, "get_git_ref", ref, FALSE, err))
                /\ out' = Append(out, Line(github_repo, <<err.message, ".">>))
                /\ NextRepo
           \/ \E err \in {ValidationFailed} :
                /\ calls' = calls \o <<Call(github_repo, "get_git_ref", ref, TRUE, NoData),
                                       Call(github_repo, "delete", ref, FALSE, err)>>
                /\ out' = Append(out, Line(github_repo, <<err.message, ".">>))
                /\ NextRepo
           \/ /\ calls' = calls \o <<Call(github_repo, "get_git_ref", ref, TRUE, NoData),
                                     Call(github_repo, "delete", ref, TRUE, NoData)>>
              /\ out' = Append(out, Line(github_repo, <<"branch deleted successfully.">>))
              /\ NextRepo

\* A configured manager about to run one batch operation.
Init ==
    /\ configs \in {Configs(Token, "", l) : l \in SelectedRepoLists}
    /\ stored = configs
    /\ github_connection = Connection(configs)
    /\ github_username = Login(User(github_connection))
    /\ github_repos = ReposOf(User(github_connection))
    /\ stack = <<>>
    /\ setup = "ready"
    /\ reprompts = 0
    /\ op = ""
    /\ status = "idle"
    /\ idx = 0
    /\ labels = <<>>
    /\ pr = None
    /\ descriptor = None
    /\ head = <<>>
    /\ out = <<>>
    /\ calls = <<>>
    /\ exc = NoException
    /\ labelIn = Absent
    /\ labelOut = [by |-> "", labels |-> <<>>]

Next ==
    \/ CallCreateIssues
    \/ CreateIssuesIter
    \/ CallCreatePullRequests
    \/ CreatePullRequestsIter
    \/ CallMergePullRequests
    \/ MergePullRequestsIter
    \/ CallDeleteBranches
    \/ DeleteBranchesIter

Spec == Init /\ [][Next]_vars

-----------------------------------------------------------------------------
(* Label parsing on its own: every short labels string, parsed as each of  *)
(* the two operations parses it.                                           *)

NotParsed == [by |-> "", labels |-> <<>>]

ParseForIssue ==
    /\ labelOut.by = ""
    /\ labelOut' = [by |-> "create_issues", labels |-> ParseIssueLabels(labelIn)]
    /\ UNCHANGED <<configs, setupVars, batchVars, labelIn>>

ParseForPullRequest ==
    /\ labelOut.by = ""
    /\ labelOut' = [by |-> "create_pull_requests", labels |-> ParsePullRequestLabels(labelIn)]
    /\ UNCHANGED <<configs, setupVars, batchVars, labelIn>>

Idle ==
    /\ op = ""
    /\ status = "idle"
    /\ idx = 0
    /\ labels = <<>>
    /\ pr = None
    /\ descriptor = None
    /\ head = <<>>
    /\ out = <<>>
    /\ calls = <<>>
    /\ exc = NoException

InitLabels ==
    /\ configs = Configs(Token, "", <<>>)
    /\ stored = configs
    /\ github_connection = Connection(configs)
    /\ github_username = Login(User(github_connection))
    /\ github_repos = ReposOf(User(github_connection))
    /\ stack = <<>>
    /\ setup = "ready"
    /\ reprompts = 0
    /\ Idle
    /\ labelIn \in LabelInputs
    /\ labelOut = NotParsed

NextLabels == ParseForIssue \/ ParseForPullRequest

SpecLabels == InitLabels /\ [][NextLabels]_vars

-----------------------------------------------------------------------------
(* The setup flow *)

Frame(fn, pc, user) == [fn |-> fn, pc |-> pc, user |-> user]

Top == stack[Len(stack)]

At(fn, pc) == setup = "running" /\ stack # <<>> /\ Top.fn = fn /\ Top.pc = pc

\* What the prompts may answer.
Hosts == {"", "ghe.example.com"}

Answers ==
    {[github_access_token |-> t, github_hostname |-> h] :
        t \in {Token, <<" ", "n", "e", "w", " ">>}, h \in Hosts}

\* What config_manager.load_configs may find: nothing saved yet, or what
\* select_github_repos saved: an accepted token and the repositories chosen.
StoredConfigs ==
    {Configs(<<>>, "", <<>>)}
    \cup {Configs(Token, h, l) : h \in Hosts, l \in SelectedRepoLists \ {<<>>}}

\* github_setup up to the remote call of get_github_username (lines 214-216)
\* on stack s: the connection is replaced and the user's login is pending.
EnterGithubSetup(c, s) ==
    /\ github_connection' = Connection(c)
    /\ stack' = Append(s, Frame("github_setup", "login", User(Connection(c))))

\* A frame returns; the flow is over when it was the outermost.
Return ==
    /\ stack' = SubSeq(stack, 1, Len(stack) - 1)
    /\ setup' = IF Len(stack) = 1 THEN "ready" ELSE "running"

Retop(pc) == [stack EXCEPT ![Len(stack)].pc = pc]

\* __init__, lines 23-29
Construct ==
    /\ setup = "new"
    /\ configs' = stored
    /\ setup' = "running"
    /\ IF stored.github_access_token # <<>>
       THEN EnterGithubSetup(stored, stack)
       ELSE /\ stack' = Append(stack, Frame("init_config", "prompt", None))
            /\ github_connection' = github_connection
    /\ UNCHANGED <<stored, github_username, github_repos, reprompts, batchVars, labelVars>>

\* init_config, lines 220-223
InitConfig ==
    /\ At("init_config", "prompt")
    /\ \E answers \in Answers :
         LET c == [configs EXCEPT
                      !.github_access_token = Strip(answers.github_access_token),
                      !.github_hostname = answers.github_hostname]
         IN  /\ configs' = c
             /\ EnterGithubSetup(c, Retop("select"))
    /\ reprompts' = reprompts + 1
    /\ UNCHANGED <<stored, github_username, github_repos, setup, batchVars, labelVars>>

\* get_github_username, lines 178-184, and on a login the rest of
\* github_setup, lines 216-217
GetGithubUsername ==
    /\ At("github_setup", "login")
    /\ UNCHANGED <<configs, stored, github_connection, batchVars, labelVars>>
    /\ \/ /\ github_username' = Login(Top.user)
          /\ github_repos' = ReposOf(Top.user)
          /\ Return
          /\ reprompts' = reprompts
       \/ \* BadCredentialsException or GithubException: init_config() again
          /\ reprompts < MaxReprompts
          /\ stack' = Append(Retop("reprompted"), Frame("init_config", "prompt", None))
          /\ UNCHANGED <<github_username, github_repos, setup, reprompts>>
       \/ \* ConnectionError: sys.exit
          /\ setup' = "exited"
          /\ UNCHANGED <<github_username, github_repos, stack, reprompts>>

\* get_github_username after its init_config() returned: the except block
\* ends without a return statement; then github_setup, lines 216-217
GithubSetupResume ==
    /\ At("github_setup", "reprompted")
    /\ github_username' = None
    /\ github_repos' = ReposOf(Top.user)
    /\ Return
    /\ UNCHANGED <<configs, stored, github_connection, reprompts, batchVars, labelVars>>

\* select_github_repos, lines 194-211, and the return of init_config
SelectGithubRepos ==
    /\ At("init_config", "select")
    /\ UNCHANGED <<github_connection, github_username, github_repos, reprompts,
                   batchVars, labelVars>>
    /\ \/ \* repositories are configured and prompt.new_repos() answers no
          /\ configs.github_selected_repos # <<>>
          /\ Return
          /\ UNCHANGED <<configs, stored>>
       \/ \* listing self.github_repos raises: repo_names is never bound
          /\ setup' = "raised"
          /\ UNCHANGED <<configs, stored, stack>>
       \/ \E selected \in SelectedRepoLists \ {<<>>} :
            /\ configs' = [configs EXCEPT !.github_selected_repos = selected]
            /\ stored' = configs'
            /\ Return

InitSetup ==
    /\ stored \in StoredConfigs
    /\ configs = None
    /\ github_connection = None
    /\ github_username = None
    /\ github_repos = None
    /\ stack = <<>>
    /\ setup = "new"
    /\ reprompts = 0
    /\ Idle
    /\ labelIn = Absent
    /\ labelOut = NotParsed

NextSetup ==
    \/ Construct
    \/ InitConfig
    \/ GetGithubUsername
    \/ GithubSetupResume
    \/ SelectGithubRepos

SpecSetup == InitSetup /\ [][NextSetup]_vars

-----------------------------------------------------------------------------
(* Properties *)

Finished == status \in {"returned", "raised"}

CallsOf(kind, repo) ==
    {k \in 1..Len(calls) : calls[k].call = kind /\ calls[k].repo = repo}

RecordsOf(repo) == {i \in 1..Len(out) : out[i].repo = repo}

\* The one line printed for repo has this text.
Reported(repo, text) ==
    /\ Cardinality(RecordsOf(repo)) = 1
    /\ \A i \in RecordsOf(repo) : out[i].text = text

\* C1: when a batch operation over a non-empty github_selected_repos is over,
\* whatever the remote returned or raised, it has printed exactly one line per
\* repository, in the order of github_selected_repos.
C1_OneRecordPerRepoInOrder ==
    (Finished /\ SelectedRepos # <<>>) =>
        /\ Len(out) = Len(SelectedRepos)
        /\ \A i \in 1..Len(out) : out[i].repo = SelectedRepos[i]

\* C2: a remote error raised by any remote call of a repository's iteration is
\* caught in that iteration: no GithubException leaves the operation (which
\* would leave the later repositories unprocessed).
C2_RemoteErrorStaysInIteration ==
    ~(status = "raised" /\ exc.type = "GithubException")

\* The answer of the open-pull listing made for repo, if it answered.
PullsAnswers(repo) ==
    {calls[k].res : k \in {j \in CallsOf("get_pulls", repo) : calls[j].ok}}

NoOpenPR ==
    <<"no open PR found for ", descriptor.base, ":", descriptor.head, ".">>

NotMergeable == <<"PR not mergeable, GitHub checks may be running.">>

\* The parts of C3 the code meets as stated: the query, and every case but
\* one mergeable match.
C3_Unmerged(repo) ==
    /\ \A k \in CallsOf("get_pulls", repo) :
         calls[k].arg = [state |-> "open", base |-> descriptor.base,
                         head |-> <<descriptor.prefix, ":", descriptor.head>>]
    /\ \A a \in PullsAnswers(repo) :
         /\ a.totalCount # 1 =>
              Reported(repo, NoOpenPR) /\ CallsOf("merge", repo) = {}
         /\ (a.totalCount = 1 /\ a.mergeable \in {"False", "None"}) =>
              Reported(repo, NotMergeable) /\ CallsOf("merge", repo) = {}

\* C3 as stated: one mergeable match is merged and success is reported.
C3_MergeClassification ==
    op = "merge_pull_requests" =>
        \A i \in 1..Len(SelectedRepos) :
            LET repo == SelectedRepos[i] IN
            /\ C3_Unmerged(repo)
            /\ \A a \in PullsAnswers(repo) :
                 (a.totalCount = 1 /\ a.mergeable = "True") =>
                     /\ Cardinality(CallsOf("merge", repo)) = 1
                     /\ Reported(repo, <<"PR merged successfully.">>)

\* C3, amended: merge_pull_requests queries the open pull requests with the
\* given base and head "{prefix}:{head}"; 0 or more than 1 match prints "no
\* open PR found for {base}:{head}" and merges nothing; 1 match that is not
\* mergeable (false, or not yet computed) prints "PR not mergeable, GitHub
\* checks may be running" and merges nothing; 1 mergeable match is merged
\* once, and the line printed is the success line when merge returns and the
\* remote error's message when merge raises.
C3_MergeClassificationAmended ==
    op = "merge_pull_requests" =>
        \A i \in 1..Len(SelectedRepos) :
            LET repo == SelectedRepos[i] IN
            /\ C3_Unmerged(repo)
            /\ \A a \in PullsAnswers(repo) :
                 (a.totalCount = 1 /\ a.mergeable = "True") =>
                     /\ Cardinality(CallsOf("merge", repo)) = 1
                     /\ \A k \in CallsOf("merge", repo) :
                          IF calls[k].ok
                          THEN Reported(repo, <<"PR merged successfully.">>)
                          ELSE Reported(repo, <<calls[k].res.message, ".">>)

\* A run that skipped an ambiguous repository and merged the next one.
C3_Witness ==
    /\ op = "merge_pull_requests"
    /\ status = "returned"
    /\ Len(SelectedRepos) = 2
    /\ \E a \in PullsAnswers(SelectedRepos[1]) : a.totalCount > 1
    /\ \E k \in CallsOf("merge", SelectedRepos[2]) : calls[k].ok

\* A label that is not empty and neither starts nor ends with whitespace.
Trimmed(label) ==
    label # <<>> /\ ~IsSpace(label[1]) /\ ~IsSpace(label[Len(label)])

\* C4: label parsing yields the trimmed, non-empty tokens of the string:
\* "a, b ,c" gives a, b, c; an empty or absent string gives no label; and no
\* label is empty or starts or ends with whitespace.
C4_LabelsTrimmedNonEmpty ==
    /\ labelOut.by = "create_issues" =>
         /\ \A i \in 1..Len(labelOut.labels) : Trimmed(labelOut.labels[i])
         /\ labelIn = Str(ExampleLabels) => labelOut.labels = <<<<"a">>, <<"b">>, <<"c">>>>
         /\ ~Truthy(labelIn) => labelOut.labels = <<>>
    /\ labelOut.by = "create_pull_requests" =>
         /\ \A l \in labelOut.labels : Trimmed(l)
         /\ labelIn = Str(ExampleLabels) => labelOut.labels = {<<"a">>, <<"b">>, <<"c">>}
         /\ ~Truthy(labelIn) => labelOut.labels = {}

\* The open issues listed for repo in this run; none when none were listed.
ListedIssues(repo) ==
    LET ks == {k \in CallsOf("get_issues", repo) : calls[k].ok}
    IN  IF ks = {} THEN <<>> ELSE calls[CHOOSE k \in ks : TRUE].res

\* The numbers of the issues of a listing whose title contains the link.
RECURSIVE LinkedNumbers(_, _)
LinkedNumbers(issues, link) ==
    IF issues = <<>> THEN <<>>
    ELSE (IF Contains(link, Head(issues).title) THEN <<Head(issues).number>> ELSE <<>>)
         \o LinkedNumbers(Tail(issues), link)

\* "#N #M ..." for a non-empty sequence of numbers
RECURSIVE References(_)
References(numbers) ==
    IF Len(numbers) = 1
    THEN <<"#">> \o Decimal(numbers[1])
    ELSE <<"#">> \o Decimal(numbers[1]) \o <<" ">> \o References(Tail(numbers))

ExpectedBody(repo) ==
    LET numbers == LinkedNumbers(ListedIssues(repo), descriptor.link)
    IN  IF descriptor.confirmation /\ numbers # <<>>
        THEN descriptor.body \o <<"\n", "\n">> \o <<"C", "l", "o", "s", "e", "s", " ">>
             \o References(numbers)
        ELSE descriptor.body

\* C5: every body create_pull_requests sends for a repository is the
\* descriptor's body, followed when confirmation is set and some open issue of
\* that repository has the link in its title by "\n\nCloses #N #M..." with
\* exactly those issues' numbers in listing order, and unchanged otherwise.
C5_ClosingReferences ==
    op = "create_pull_requests" =>
        \A k \in 1..Len(calls) :
            calls[k].call = "create_pull" => calls[k].arg.body = ExpectedBody(calls[k].repo)

\* Issues 3 and 7 are listed in that order and linked: the body ends
\* "Closes #3 #7".
C5_Witness ==
    /\ op = "create_pull_requests"
    /\ \E k \in 1..Len(calls) :
         /\ calls[k].call = "create_pull"
         /\ calls[k].ok
         /\ Len(ListedIssues(calls[k].repo)) >= 2
         /\ LinkedNumbers(ListedIssues(calls[k].repo), descriptor.link) = <<3, 7>>
         /\ calls[k].arg.body =
              Body \o <<"\n", "\n", "C", "l", "o", "s", "e", "s", " ", "#", "3", " ", "#", "7">>

\* C6: a pull-request creation that failed with a structured remote error has
\* one failure line with the repository, the primary message and, for every
\* sub-error, its message or else its field name; also without a sub-error list.
C6_FailureRecord ==
    op = "create_pull_requests" =>
        \A k \in 1..Len(calls) :
            (calls[k].call = "create_pull" /\ ~calls[k].ok) =>
                /\ Cardinality(RecordsOf(calls[k].repo)) = 1
                /\ \A i \in RecordsOf(calls[k].repo) :
                     /\ calls[k].res.message \in Range(out[i].text)
                     /\ \A j \in 1..Len(calls[k].res.errors) :
                          LET e == calls[k].res.errors[j]
                          IN  (IF e.has_message THEN e.message ELSE e.field)
                                  \in Range(out[i].text)

\* C7: at the end of every completed setup flow the stored record equals the
\* in-memory configuration.
C7_ConfigPersisted ==
    setup = "ready" => stored = configs

\* C8: the descriptor an iteration of create_pull_requests is about to read is
\* the one the caller passed in, whatever happened in the iterations before.
C8_DescriptorUnchanged ==
    Running("create_pull_requests") => pr = descriptor

\* The labels the pull request created for repo is meant to get.
ExpectedLabels(repo) ==
    ParsePullRequestLabels(descriptor.labels)
    \cup (IF descriptor.confirmation /\ descriptor.inherit_labels
          THEN UNION {Range(ListedIssues(repo)[i].labels) :
                        i \in {j \in 1..Len(ListedIssues(repo)) :
                                 Contains(descriptor.link, ListedIssues(repo)[j].title)}}
          ELSE {})

Created(repo) == \E k \in CallsOf("create_pull", repo) : calls[k].ok

\* C9 as stated: the created pull request gets exactly the expected labels,
\* each by one add call of its own.
C9_LabelSet ==
    op = "create_pull_requests" =>
        \A i \in 1..Len(SelectedRepos) :
            LET repo == SelectedRepos[i]
                adds == CallsOf("add_to_labels", repo)
            IN  Created(repo) =>
                    /\ \A k \in adds : calls[k].arg \in ExpectedLabels(repo)
                    /\ \A l \in ExpectedLabels(repo) :
                         Cardinality({k \in adds : calls[k].arg = l /\ calls[k].ok}) = 1
                    /\ \A k1, k2 \in adds : calls[k1].arg = calls[k2].arg => k1 = k2

\* C9, amended: after a successful creation the labels are added one call per
\* label, each label at most once and only labels of the expected set (the
\* parsed descriptor labels, with the labels of that repository's linked open
\* issues when confirmation and inherit_labels are both set); the labels added
\* are the whole expected set when no add call raises, and an add call that
\* raises is the last one made for the repository.
C9_LabelSetAmended ==
    op = "create_pull_requests" =>
        \A i \in 1..Len(SelectedRepos) :
            LET repo == SelectedRepos[i]
                adds == CallsOf("add_to_labels", repo)
            IN  /\ adds # {} => Created(repo)
                /\ Created(repo) =>
                    /\ \A k \in adds : calls[k].arg \in ExpectedLabels(repo)
                    /\ \A k1, k2 \in adds : calls[k1].arg = calls[k2].arg => k1 = k2
                    /\ (\A k \in adds : calls[k].ok) =>
                           {calls[k].arg : k \in adds} = ExpectedLabels(repo)
                    /\ \A k \in adds : ~calls[k].ok => \A k2 \in adds : k2 <= k

\* The second repository's pull request, created after the first one's
\* creation failed, got the label of its own linked issue and nothing of the
\* issue listed for the first repository.
C9_Witness ==
    /\ op = "create_pull_requests"
    /\ status = "returned"
    /\ Len(SelectedRepos) = 2
    /\ descriptor.confirmation /\ descriptor.inherit_labels
    /\ descriptor.labels = Absent
    /\ ExpectedLabels(SelectedRepos[1]) = {<<"a">>, Bug}
    /\ ExpectedLabels(SelectedRepos[2]) = {Bug}
    /\ Len(ListedIssues(SelectedRepos[2])) = 2
    /\ Created(SelectedRepos[2])
    /\ {calls[k].arg : k \in {j \in CallsOf("add_to_labels", SelectedRepos[2]) : calls[j].ok}}
         = {Bug}

\* C10: when setup has finished, the connection is built from the current
\* configs, github_username is the login of that connection's user and
\* github_repos is that same user's listing.
C10_DerivedFieldsConsistent ==
    setup = "ready" =>
        /\ github_connection = Connection(configs)
        /\ github_username = Login(User(github_connection))
        /\ github_repos = ReposOf(User(github_connection))

====
